---------------------------- MODULE Spec2Model ----------------------------
(***************************************************************************)
(* A model of the comment-classification scripts: classify.py (resumable   *)
(* batch loop, chunk_text, get_majority_stance, answer parsing) and        *)
(* validate.py (sampling of already classified comments).                  *)
(*                                                                         *)
(* Text is a sequence of one-character strings, so that len(), split() and *)
(* join() are computed as Python computes them.                            *)
(***************************************************************************)
EXTENDS Integers, Sequences, FiniteSets, TLC

VARIABLES
    \* chunk_text(text, max_tokens) called in isolation
    ct_pc, ct_text, ct_max_tokens, ct_chunks,
    \* get_majority_stance(stances) called in isolation
    gm_pc, gm_stances, gm_result,
    \* the answers of the API for one item, parsed and aggregated
    pa_pc, pa_content, pa_stance, pa_chunk_stances, pa_result,
    \* validate.py: the results CSV, the comments of the directory, the
    \* num_samples argument, main's locals, the line the user typed last,
    \* the agreement as printed and the rows of the output CSV
    va_pc, va_results, va_dir, va_arg_num_samples,
    va_num_samples, va_sampled, va_user_input, va_user_responses, va_output,
    va_typed, va_agreement,
    \* classify.py: the input path, the output CSV, the arguments of the
    \* run and main's locals, the output CSV as the run found it, the
    \* requests the API has received in the run, what the last pass of the
    \* loop did, and how each run so far ended
    input, csv_exists, csv, csv_before,
    pc, args_dry_run, args_max_tokens, processed_ids, data, pos, total_tokens,
    api_calls, last, run_log

varsChunk == <<ct_pc, ct_text, ct_max_tokens, ct_chunks>>
varsMajority == <<gm_pc, gm_stances, gm_result>>
varsParse == <<pa_pc, pa_content, pa_stance, pa_chunk_stances, pa_result>>
varsValidate == <<va_pc, va_results, va_dir, va_arg_num_samples,
                  va_num_samples, va_sampled, va_user_input, va_user_responses,
                  va_output, va_typed, va_agreement>>
varsMain == <<input, csv_exists, csv, csv_before, pc, args_dry_run, args_max_tokens,
              processed_ids, data, pos, total_tokens, api_calls, last, run_log>>

vars == <<varsChunk, varsMajority, varsParse, varsValidate, varsMain>>

(***************************************************************************)
(* Bounds of the model                                                     *)
(***************************************************************************)
\* longest text handed to chunk_text in isolation
MaxTextLen == 6
\* longest list of chunk labels handed to get_majority_stance in isolation
MaxStances == 4
\* longest answer of the API, in atoms (see Atoms)
MaxAnswerLen == 3
\* largest num_samples given to validate.py
MaxNumSamples == 3
\* longest line the user types at a prompt of validate.py, in atoms
MaxInputLen == 2
\* most entries of the JSON list, or files of the directory, given to
\* classify.py
MaxItems == 2
\* most runs of classify.py over the same input and output CSV
MaxRuns == 2

(***************************************************************************)
(* Strings                                                                 *)
(***************************************************************************)
\* a letter, the full stop and the blank: enough to form ". " separators,
\* sentences that end in "." and sentences that start with " "
Chars == {"a", ".", " "}

RECURSIVE SeqsUpTo(_, _)
SeqsUpTo(S, n) ==
    IF n = 0 THEN {<<>>}
    ELSE LET shorter == SeqsUpTo(S, n - 1)
         IN  shorter \cup {Append(s, c) : s \in {t \in shorter : Len(t) = n - 1}, c \in S}

\* str.split('. '): leftmost, non-overlapping occurrences of the separator
RECURSIVE SplitFrom(_, _, _, _)
SplitFrom(text, i, piece, parts) ==
    IF i > Len(text) THEN Append(parts, piece)
    ELSE IF i < Len(text) /\ text[i] = "." /\ text[i + 1] = " "
         THEN SplitFrom(text, i + 2, <<>>, Append(parts, piece))
         ELSE SplitFrom(text, i + 1, Append(piece, text[i]), parts)

split(text) == SplitFrom(text, 1, <<>>, <<>>)

\* '. '.join(parts)
RECURSIVE join(_)
join(parts) ==
    IF parts = <<>> THEN <<>>
    ELSE IF Len(parts) = 1 THEN parts[1]
    ELSE parts[1] \o <<".", " ">> \o join(Tail(parts))

(***************************************************************************)
(* chunk_text                                                              *)
(***************************************************************************)
\* A faulty iteration: a full current_chunk is overwritten, not appended
ChunkStepDropsFullChunk(st, sentence, max_chars) ==
    LET test_chunk == IF st.current_chunk # <<>>
                      THEN st.current_chunk \o <<".", " ">> \o sentence
                      ELSE sentence
    IN  IF Len(test_chunk) <= max_chars
        THEN [st EXCEPT !.current_chunk = test_chunk]
        ELSE [st EXCEPT !.current_chunk = sentence]

\* lines 169-178: one iteration of the loop over the sentences;
\* st = [chunks, current_chunk]
ChunkStep(st, sentence, max_chars) ==
    LET test_chunk == IF st.current_chunk # <<>>
                      THEN st.current_chunk \o <<".", " ">> \o sentence
                      ELSE sentence
    IN  IF Len(test_chunk) <= max_chars
        THEN [st EXCEPT !.current_chunk = test_chunk]
        ELSE [chunks |-> IF st.current_chunk # <<>>
                         THEN Append(st.chunks, st.current_chunk)
                         ELSE st.chunks,
              current_chunk |-> sentence]

RECURSIVE ChunkLoop(_, _, _, _)
ChunkLoop(sentences, k, st, max_chars) ==
    IF k > Len(sentences) THEN st
    ELSE ChunkLoop(sentences, k + 1, ChunkStep(st, sentences[k], max_chars), max_chars)

chunk_text(text, max_tokens) ==
    LET max_chars == max_tokens * 3
    IN  IF Len(text) <= max_chars THEN <<text>>
        ELSE LET st == ChunkLoop(split(text), 1,
                                 [chunks |-> <<>>, current_chunk |-> <<>>], max_chars)
             IN  IF st.current_chunk # <<>>
                 THEN Append(st.chunks, st.current_chunk)
                 ELSE st.chunks

(***************************************************************************)
(* get_majority_stance                                                     *)
(***************************************************************************)
\* Counter(stances)[x]
RECURSIVE CountOf(_, _)
CountOf(stances, x) ==
    IF stances = <<>> THEN 0
    ELSE (IF Head(stances) = x THEN 1 ELSE 0) + CountOf(Tail(stances), x)

\* The keys of Counter(stances), in insertion order: each label at its
\* first occurrence
RECURSIVE CounterKeys(_, _)
CounterKeys(stances, seen) ==
    IF stances = <<>> THEN seen
    ELSE CounterKeys(Tail(stances),
                     IF \E k \in 1..Len(seen) : seen[k] = Head(stances)
                     THEN seen ELSE Append(seen, Head(stances)))

\* A faulty choice: the first of the least frequent labels
least_common_1(stances) ==
    LET keys == CounterKeys(stances, <<>>)
        best == CHOOSE k \in 1..Len(keys) :
                    /\ \A j \in 1..Len(keys) :
                           CountOf(stances, keys[j]) >= CountOf(stances, keys[k])
                    /\ \A j \in 1..(k - 1) :
                           CountOf(stances, keys[j]) > CountOf(stances, keys[k])
    IN  <<keys[best], CountOf(stances, keys[best])>>

\* A faulty choice: the last of the labels that share the highest count
most_common_last(stances) ==
    LET keys == CounterKeys(stances, <<>>)
        best == CHOOSE k \in 1..Len(keys) :
                    /\ \A j \in 1..Len(keys) :
                           CountOf(stances, keys[j]) <= CountOf(stances, keys[k])
                    /\ \A j \in (k + 1)..Len(keys) :
                           CountOf(stances, keys[j]) < CountOf(stances, keys[k])
    IN  <<keys[best], CountOf(stances, keys[best])>>

\* Counter(stances).most_common(1)[0]: max() over the items by count, which
\* keeps the first of the items that share the highest count
most_common_1(stances) ==
    LET keys == CounterKeys(stances, <<>>)
        best == CHOOSE k \in 1..Len(keys) :
                    /\ \A j \in 1..Len(keys) :
                           CountOf(stances, keys[j]) <= CountOf(stances, keys[k])
                    /\ \A j \in 1..(k - 1) :
                           CountOf(stances, keys[j]) < CountOf(stances, keys[k])
    IN  <<keys[best], CountOf(stances, keys[best])>>

get_majority_stance(stances) ==
    IF stances = <<>> THEN "absent"
    ELSE most_common_1(stances)[1]

(***************************************************************************)
(* The answer of the API and its parsing                                   *)
(***************************************************************************)
\* An answer is a sequence of atoms: the two words the regular expression
\* looks for, a capitalised spelling of one of them, one other word
\* character and the blank. "present" followed by "x" is the text
\* "presentx"; neither word contains the other or the letter x, so an
\* occurrence of a word in the text is an atom of the sequence.
Atoms == {"present", "absent", "Present", "x", " "}

\* \w of the regular expression: every atom but the blank is made of word
\* characters
IsWord(a) == a # " "

\* str.strip(): leading and trailing whitespace removed
RECURSIVE lstrip(_)
lstrip(s) == IF s # <<>> /\ Head(s) = " " THEN lstrip(Tail(s)) ELSE s

RECURSIVE rstrip(_)
rstrip(s) ==
    IF s # <<>> /\ s[Len(s)] = " " THEN rstrip(SubSeq(s, 1, Len(s) - 1)) ELSE s

strip(s) == rstrip(lstrip(s))

\* str.lower(), atom by atom
LowerAtom(a) ==
    CASE a = "Present" -> "present"
      [] a = "For" -> "for"
      [] a = "AGAINST" -> "against"
      [] OTHER -> a

lower(s) == [k \in 1..Len(s) |-> LowerAtom(s[k])]

\* A faulty pattern, (present|absent) without the word boundaries
MatchesAnywhere(answer, k) ==
    answer[k] \in {"present", "absent"}

\* \b(present|absent)\b matches at atom k
MatchesAt(answer, k) ==
    /\ answer[k] \in {"present", "absent"}
    /\ (k = 1 \/ ~IsWord(answer[k - 1]))
    /\ (k = Len(answer) \/ ~IsWord(answer[k + 1]))

\* re.search: the leftmost match, None (here <<>>) without one
RECURSIVE SearchFrom(_, _)
SearchFrom(answer, k) ==
    IF k > Len(answer) THEN <<>>
    ELSE IF MatchesAt(answer, k) THEN <<answer[k]>>
    ELSE SearchFrom(answer, k + 1)

\* lines 377-383 and 408-414 of main: the label read from an answer
ParseAnswer(content) ==
    LET answer == lower(strip(content))
        match == SearchFrom(answer, 1)
    IN  IF match # <<>> THEN match[1] ELSE "absent"

(***************************************************************************)
(* chunk_text in isolation: any text, any budget                           *)
(***************************************************************************)
\* budgets handed to chunk_text: main passes max_tokens - 1000, which is
\* negative or zero for a small --max-tokens
ChunkBudgets == {-1, 0, 1, 2}

ParkedChunk ==
    /\ ct_pc = "off"
    /\ ct_text = <<>>
    /\ ct_max_tokens = 0
    /\ ct_chunks = <<>>

InitChunk ==
    /\ ct_pc = "call"
    /\ ct_text \in SeqsUpTo(Chars, MaxTextLen)
    /\ ct_max_tokens \in ChunkBudgets
    /\ ct_chunks = <<>>

CallChunkText ==
    /\ ct_pc = "call"
    /\ ct_chunks' = chunk_text(ct_text, ct_max_tokens)
    /\ ct_pc' = "done"
    /\ UNCHANGED <<ct_text, ct_max_tokens>>
    /\ UNCHANGED <<varsMajority, varsParse, varsValidate, varsMain>>

NextChunk == CallChunkText

(***************************************************************************)
(* get_majority_stance in isolation: any list of labels                    *)
(***************************************************************************)
\* the function takes any list of strings; a third label makes three-way
\* ties and pluralities below one half possible
Labels == {"present", "absent", "unclear"}

ParkedMajority ==
    /\ gm_pc = "off"
    /\ gm_stances = <<>>
    /\ gm_result = ""

InitMajority ==
    /\ gm_pc = "call"
    /\ gm_stances \in SeqsUpTo(Labels, MaxStances)
    /\ gm_result = ""

CallGetMajorityStance ==
    /\ gm_pc = "call"
    /\ gm_result' = get_majority_stance(gm_stances)
    /\ gm_pc' = "done"
    /\ UNCHANGED gm_stances
    /\ UNCHANGED <<varsChunk, varsParse, varsValidate, varsMain>>

NextMajority == CallGetMajorityStance

(***************************************************************************)
(* The answers for one item of a run that is not dry: one answer for an    *)
(* item sent whole (lines 398-414), one per chunk for a chunked item       *)
(* (lines 364-392)                                                         *)
(***************************************************************************)
Contents == SeqsUpTo(Atoms, MaxAnswerLen)

ParkedParse ==
    /\ pa_pc = "off"
    /\ pa_content = <<>>
    /\ pa_stance = ""
    /\ pa_chunk_stances = <<>>
    /\ pa_result = ""

InitParse ==
    /\ pa_pc \in {"single", "chunks"}
    /\ pa_content = <<>>
    /\ pa_stance = ""
    /\ pa_chunk_stances = <<>>
    /\ pa_result = ""

\* lines 399-414: the answer for an item sent whole is its label
SingleAnswer ==
    /\ pa_pc = "single"
    /\ \E content \in Contents :
        /\ pa_content' = content
        /\ pa_stance' = ParseAnswer(content)
        /\ pa_result' = ParseAnswer(content)
    /\ pa_pc' = "done"
    /\ UNCHANGED pa_chunk_stances
    /\ UNCHANGED <<varsChunk, varsMajority, varsValidate, varsMain>>

\* lines 364-385: the answer for the next chunk
ChunkAnswer ==
    /\ pa_pc = "chunks"
    /\ Len(pa_chunk_stances) < MaxStances
    /\ \E content \in Contents :
        /\ pa_content' = content
        /\ pa_stance' = ParseAnswer(content)
        /\ pa_chunk_stances' = Append(pa_chunk_stances, ParseAnswer(content))
    /\ UNCHANGED <<pa_pc, pa_result>>
    /\ UNCHANGED <<varsChunk, varsMajority, varsValidate, varsMain>>

\* lines 390-392: after the last chunk (of none, when chunk_text returned [])
ChunksDone ==
    /\ pa_pc = "chunks"
    /\ pa_result' = get_majority_stance(pa_chunk_stances)
    /\ pa_pc' = "done"
    /\ UNCHANGED <<pa_content, pa_stance, pa_chunk_stances>>
    /\ UNCHANGED <<varsChunk, varsMajority, varsValidate, varsMain>>

NextParse == SingleAnswer \/ ChunkAnswer \/ ChunksDone

(***************************************************************************)
(* validate.py                                                             *)
(***************************************************************************)
\* (filename, comment_id): the key of a row of the results CSV and of a
\* comment of a JSON file of the directory
Keys == {<<"a.json", "1">>, <<"a.json", "2">>, <<"b.json", "1">>}

Stances == {"for", "against"}

\* the "stance" column of the results CSV holds any string: the two labels
\* and another spelling of one of them
ModelStances == {"for", "against", "For"}

\* what the user may type: a label as it is, a label in capitals, and
\* whitespace; a line is a sequence of these, so "for for" and the empty
\* line are lines too
InputAtoms == {"for", "AGAINST", " "}

\* list[:n] of Python
SliceTo(list, n) ==
    IF n >= 0 THEN SubSeq(list, 1, IF n < Len(list) THEN n ELSE Len(list))
    ELSE SubSeq(list, 1, IF Len(list) + n > 0 THEN Len(list) + n ELSE 0)

\* the orders random.shuffle may leave a list of these elements in
Shuffles(S) ==
    {p \in [1..Cardinality(S) -> S] : \A i, j \in 1..Cardinality(S) : p[i] = p[j] => i = j}

\* lines 33-41: the comments of the directory that have a row in the
\* results CSV, each with the model's stance
Matching(dir, results) ==
    {[filename |-> key[1], comment_id |-> key[2], model_stance |-> results[key]] :
        key \in dir \cap DOMAIN results}

\* user_input = None: nothing typed yet for the comment on display
NoInput == <<"None">>

ParkedValidate ==
    /\ va_pc = "off"
    /\ va_results = <<>>
    /\ va_dir = {}
    /\ va_arg_num_samples = 0
    /\ va_num_samples = 0
    /\ va_sampled = <<>>
    /\ va_user_input = NoInput
    /\ va_user_responses = <<>>
    /\ va_output = <<>>
    /\ va_typed = NoInput
    /\ va_agreement = 0

\* model_results is a dict: one stance per key, the last row of the CSV
\* with that key
InitValidate ==
    /\ va_pc = "load"
    /\ \E keys \in SUBSET Keys : va_results \in [keys -> ModelStances]
    /\ va_dir \in SUBSET Keys
    /\ va_arg_num_samples \in (-2)..MaxNumSamples
    /\ va_num_samples = 0
    /\ va_sampled = <<>>
    /\ va_user_input = NoInput
    /\ va_user_responses = <<>>
    /\ va_output = <<>>
    /\ va_typed = NoInput
    /\ va_agreement = 0

\* lines 43-45: nothing to validate, sys.exit(1)
NoComments ==
    /\ va_pc = "load"
    /\ Matching(va_dir, va_results) = {}
    /\ va_pc' = "exit"
    /\ UNCHANGED <<va_results, va_dir, va_arg_num_samples, va_num_samples,
                   va_sampled, va_user_input, va_user_responses, va_output,
                   va_typed, va_agreement>>
    /\ UNCHANGED <<varsChunk, varsMajority, varsParse, varsMain>>

\* lines 22-52: load the results and the comments, cap num_samples,
\* shuffle and take the sample
LoadAndSample ==
    /\ va_pc = "load"
    /\ Matching(va_dir, va_results) # {}
    /\ LET num_samples ==
               IF va_arg_num_samples < Cardinality(Matching(va_dir, va_results))
               THEN va_arg_num_samples
               ELSE Cardinality(Matching(va_dir, va_results))
       IN  /\ va_num_samples' = num_samples
           /\ \E comments \in Shuffles(Matching(va_dir, va_results)) :
                va_sampled' = SliceTo(comments, num_samples)
    /\ va_pc' = "prompt"
    /\ UNCHANGED <<va_results, va_dir, va_arg_num_samples, va_user_input,
                   va_user_responses, va_output, va_typed, va_agreement>>
    /\ UNCHANGED <<varsChunk, varsMajority, varsParse, varsMain>>

\* lines 60-66: the user types something that is neither label; the prompt
\* is repeated
PromptAgain ==
    /\ va_pc = "prompt"
    /\ Len(va_user_responses) < Len(va_sampled)
    /\ \E typed \in SeqsUpTo(InputAtoms, MaxInputLen) :
        /\ lower(strip(typed)) \notin {<<"for">>, <<"against">>}
        /\ va_user_input' = lower(strip(typed))
        /\ va_typed' = typed
    /\ UNCHANGED <<va_pc, va_results, va_dir, va_arg_num_samples, va_num_samples,
                   va_sampled, va_user_responses, va_output, va_agreement>>
    /\ UNCHANGED <<varsChunk, varsMajority, varsParse, varsMain>>

\* lines 60-69: the user types a label; the response is stored
Respond ==
    /\ va_pc = "prompt"
    /\ Len(va_user_responses) < Len(va_sampled)
    /\ \E typed \in SeqsUpTo(InputAtoms, MaxInputLen) :
        LET user_input == lower(strip(typed))
            comment == va_sampled[Len(va_user_responses) + 1]
        IN  /\ user_input \in {<<"for">>, <<"against">>}
            /\ va_user_responses' = Append(va_user_responses,
                   [filename |-> comment.filename, comment_id |-> comment.comment_id,
                    model_stance |-> comment.model_stance, user_stance |-> user_input[1]])
            /\ va_typed' = typed
    /\ va_user_input' = NoInput
    /\ UNCHANGED <<va_pc, va_results, va_dir, va_arg_num_samples, va_num_samples,
                   va_sampled, va_output, va_agreement>>
    /\ UNCHANGED <<varsChunk, varsMajority, varsParse, varsMain>>

\* A faulty comparison: the two stances compared without their case
AgreesIgnoringCase(model_stance, user_stance) ==
    LowerAtom(model_stance) = LowerAtom(user_stance)

\* lines 75 and 85: r[2] == r[3], model_stance == user_stance

Agrees(model_stance, user_stance) == model_stance = user_stance

\* f"{x:.2f}" of a fraction num / den, in hundredths: the nearest
\* hundredth
Hundredths(num, den) == (2 * 100 * num + den) \div (2 * den)

\* lines 74-78: the agreement percentage as printed, in hundredths of a
\* percent
AgreementPrinted(user_responses) ==
    LET total == Len(user_responses)
        agree_count == Cardinality({k \in 1..total :
                           Agrees(user_responses[k].model_stance,
                                  user_responses[k].user_stance)})
    IN  IF total > 0 THEN Hundredths(agree_count * 100, total) ELSE 0

\* lines 73-88: the agreement and the output CSV
WriteValidation ==
    /\ va_pc = "prompt"
    /\ Len(va_user_responses) = Len(va_sampled)
    /\ va_agreement' = AgreementPrinted(va_user_responses)
    /\ va_output' = [k \in 1..Len(va_user_responses) |->
           [filename |-> va_user_responses[k].filename,
            comment_id |-> va_user_responses[k].comment_id,
            model_stance |-> va_user_responses[k].model_stance,
            user_stance |-> va_user_responses[k].user_stance,
            agrees |-> Agrees(va_user_responses[k].model_stance,
                              va_user_responses[k].user_stance)]]
    /\ va_pc' = "done"
    /\ UNCHANGED <<va_results, va_dir, va_arg_num_samples, va_num_samples,
                   va_sampled, va_user_input, va_user_responses, va_typed>>
    /\ UNCHANGED <<varsChunk, varsMajority, varsParse, varsMain>>

NextValidate == NoComments \/ LoadAndSample \/ PromptAgain \/ Respond \/ WriteValidation

(***************************************************************************)
(* classify.py: main                                                       *)
(***************************************************************************)
\* len(construct_full_prompt("", system_prompt)): the stripped system
\* prompt, a newline and the stripped user prompt around an empty comment
PromptChars == 2390

\* line 361: the tokens main leaves for the system prompt
ChunkReserve == 1000

\* An identifier is a JSON string or a JSON number (entry["comment_id"]),
\* or the stem of a file name; v is its text, str(comment_id)
PyStr(text) == [kind |-> "str", v |-> text]
PyInt(text) == [kind |-> "int", v |-> text]

\* csv.writer writes str(comment_id); csv.DictReader reads a string back
CsvCell(comment_id) == comment_id.v

JsonIds == {PyStr("1"), PyStr("2"), PyInt("1")}

\* an empty comment (entry.get("comment", "") without the key), and one of
\* two sentences
Texts == {<<>>, <<"a", "b", ".", " ", "c">>}

\* the part of get_supported_extensions() the directories of the model use,
\* in its order
Suffixes == <<".pdf", ".txt">>

JsonEntries == [comment_id : JsonIds, comment : Texts]

\* a file of the directory: its stem and suffix, the text in it, and
\* whether extract_text_from_file returns it or raises
DirFiles == [stem : {"1", "2"}, suffix : {".pdf", ".txt"}, text : Texts,
             extract_ok : BOOLEAN]

SuffixOrder(suffix) == CHOOSE k \in 1..Len(Suffixes) : Suffixes[k] = suffix

\* lines 292-294: the files found, one glob per suffix in the order of
\* get_supported_extensions(); no two files have the same name
IsListing(files) ==
    /\ \A j, k \in 1..Len(files) :
        (files[j].stem = files[k].stem /\ files[j].suffix = files[k].suffix) => j = k
    /\ \A j, k \in 1..Len(files) :
        j < k => SuffixOrder(files[j].suffix) <= SuffixOrder(files[k].suffix)

Inputs ==
    {[mode |-> "json", entries |-> es] : es \in SeqsUpTo(JsonEntries, MaxItems)}
    \cup {[mode |-> "dir", entries |-> fs] :
            fs \in {l \in SeqsUpTo(DirFiles, MaxItems) : IsListing(l)}}

\* lines 280-284 and 303-316: the comments to process
RECURSIVE LoadFiles(_)
LoadFiles(files) ==
    IF files = <<>> THEN <<>>
    ELSE (IF Head(files).extract_ok
          THEN <<[comment_id |-> PyStr(Head(files).stem), comment |-> Head(files).text]>>
          ELSE <<>>) \o LoadFiles(Tail(files))

LoadData(in) ==
    IF in.mode = "json" THEN in.entries ELSE LoadFiles(in.entries)

Header == <<"Comment ID", "Strong Mayor Powers">>

\* lines 267-270: the "Comment ID" of every row after the header row
ProcessedIds(file) == {PyStr(file[k][1]) : k \in 2..Len(file)}

\* A faulty test: nothing counts as processed
IsProcessedNever(comment_id, ids) == FALSE

\* line 339: comment_id in processed_ids

IsProcessed(comment_id, ids) == comment_id \in ids

\* lines 348-352: what tiktoken counts for the full prompt under --model,
\* or a third of its length when tiktoken raises
TokenCounts(comment_text) ==
    {1500, (PromptChars + Len(comment_text)) \div 3}

\* --max-tokens: below the tokens of the prompt around an empty comment,
\* and a little above the reserve
MaxTokensChoices == {400, 1001}

\* message.content of a response
ApiContents == {<<"Present">>, <<" ", "absent">>, <<"x">>}

NoStep == [idx |-> 0, outcome |-> "none", prompt_tokens |-> 0, calls |-> 0,
           tokens |-> 0, rows |-> 0, result |-> ""]

\* what the pass of the loop over data[pos] did, read off the state before
\* and after it
Observe(outcome, prompt_tokens, result) ==
    last' = [idx |-> pos, outcome |-> outcome, prompt_tokens |-> prompt_tokens,
             calls |-> api_calls' - api_calls,
             tokens |-> total_tokens' - total_tokens,
             rows |-> Len(csv') - Len(csv),
             result |-> result]

ParkedMain ==
    /\ input = [mode |-> "json", entries |-> <<>>]
    /\ csv_exists = FALSE
    /\ csv = <<>>
    /\ csv_before = <<>>
    /\ pc = "off"
    /\ args_dry_run = FALSE
    /\ args_max_tokens = 0
    /\ processed_ids = {}
    /\ data = <<>>
    /\ pos = 0
    /\ total_tokens = 0
    /\ api_calls = 0
    /\ last = NoStep
    /\ run_log = <<>>

\* no output CSV yet
InitMain ==
    /\ input \in Inputs
    /\ csv_exists = FALSE
    /\ csv = <<>>
    /\ csv_before = <<>>
    /\ pc = "idle"
    /\ args_dry_run = FALSE
    /\ args_max_tokens = 0
    /\ processed_ids = {}
    /\ data = <<>>
    /\ pos = 0
    /\ total_tokens = 0
    /\ api_calls = 0
    /\ last = NoStep
    /\ run_log = <<>>

\* the process is gone: its locals with it
EndRun(how) ==
    /\ pc' = "idle"
    /\ run_log' = Append(run_log, how)
    /\ processed_ids' = {}
    /\ data' = <<>>
    /\ pos' = 0
    /\ total_tokens' = 0
    /\ api_calls' = 0
    /\ last' = NoStep
    /\ csv_before' = <<>>
    /\ UNCHANGED <<input, csv_exists, csv, args_dry_run, args_max_tokens>>
    /\ UNCHANGED <<varsChunk, varsMajority, varsParse, varsValidate>>

\* lines 296-299: a directory without a supported file, sys.exit(1) before
\* the output CSV is opened
ExitNoFiles ==
    /\ pc = "idle"
    /\ Len(run_log) < MaxRuns
    /\ input.mode = "dir"
    /\ input.entries = <<>>
    /\ EndRun("exit")

\* A faulty test: the header row goes into every file the run opens
NeedsHeaderAlways(is_file, file) == TRUE

\* line 331, after open(output_file, "a") has created a missing file:
\* not output_file.is_file() or output_file.stat().st_size == 0

NeedsHeader(is_file, file) == ~is_file \/ Len(file) = 0

\* lines 262-335: read the identifiers of the output CSV, load the
\* comments, open the CSV for appending and write the header row into an
\* empty file
StartRun ==
    /\ pc = "idle"
    /\ Len(run_log) < MaxRuns
    /\ ~(input.mode = "dir" /\ input.entries = <<>>)
    /\ args_dry_run' \in BOOLEAN
    /\ args_max_tokens' \in MaxTokensChoices
    /\ processed_ids' = IF csv_exists THEN ProcessedIds(csv) ELSE {}
    /\ data' = LoadData(input)
    /\ total_tokens' = 0
    /\ csv_exists' = TRUE
    /\ csv' = IF NeedsHeader(csv_exists', csv) THEN Append(csv, Header) ELSE csv
    /\ csv_before' = csv
    /\ pos' = 1
    /\ api_calls' = 0
    /\ last' = NoStep
    /\ pc' = "loop"
    /\ UNCHANGED <<input, run_log>>
    /\ UNCHANGED <<varsChunk, varsMajority, varsParse, varsValidate>>

InLoop ==
    /\ pc = "loop"
    /\ pos <= Len(data)

NextItem ==
    /\ pos' = pos + 1
    /\ UNCHANGED <<input, csv_exists, csv_before, pc, args_dry_run, args_max_tokens,
                   processed_ids, data, run_log>>
    /\ UNCHANGED <<varsChunk, varsMajority, varsParse, varsValidate>>

\* lines 338-341: already in the output CSV
SkipItem ==
    /\ InLoop
    /\ IsProcessed(data[pos].comment_id, processed_ids)
    /\ UNCHANGED <<csv, total_tokens, api_calls>>
    /\ Observe("skipped", 0, "")
    /\ NextItem

\* A faulty dry pass: line 426 without its guard
DrySingleWritesRow ==
    /\ InLoop
    /\ ~IsProcessed(data[pos].comment_id, processed_ids)
    /\ args_dry_run
    /\ \E prompt_tokens \in TokenCounts(data[pos].comment) :
        /\ prompt_tokens <= args_max_tokens
        /\ total_tokens' = total_tokens + prompt_tokens
        /\ csv' = Append(csv, <<CsvCell(data[pos].comment_id), "(dry-run)">>)
        /\ UNCHANGED api_calls
        /\ Observe("dry", prompt_tokens, "(dry-run)")
    /\ NextItem

\* lines 343-354 and 396-416, 425 with --dry-run: tokens counted, no request
DrySingle ==
    /\ InLoop
    /\ ~IsProcessed(data[pos].comment_id, processed_ids)
    /\ args_dry_run
    /\ \E prompt_tokens \in TokenCounts(data[pos].comment) :
        /\ prompt_tokens <= args_max_tokens
        /\ total_tokens' = total_tokens + prompt_tokens
        /\ UNCHANGED <<csv, api_calls>>
        /\ Observe("dry", prompt_tokens, "(dry-run)")
    /\ NextItem

\* lines 343-394, 425 with --dry-run: the chunks are cut, no request made
DryChunked ==
    /\ InLoop
    /\ ~IsProcessed(data[pos].comment_id, processed_ids)
    /\ args_dry_run
    /\ \E prompt_tokens \in TokenCounts(data[pos].comment) :
        /\ prompt_tokens > args_max_tokens
        /\ total_tokens' = total_tokens + prompt_tokens
        /\ UNCHANGED <<csv, api_calls>>
        /\ Observe("dry", prompt_tokens, "(dry-run)")
    /\ NextItem

\* lines 343-354, 396-414, 426: one request for the whole comment
ClassifySingle ==
    /\ InLoop
    /\ ~IsProcessed(data[pos].comment_id, processed_ids)
    /\ ~args_dry_run
    /\ \E prompt_tokens \in TokenCounts(data[pos].comment), content \in ApiContents :
        /\ prompt_tokens <= args_max_tokens
        /\ total_tokens' = total_tokens + prompt_tokens
        /\ api_calls' = api_calls + 1
        /\ csv' = Append(csv, <<CsvCell(data[pos].comment_id), ParseAnswer(content)>>)
        /\ Observe("written", prompt_tokens, ParseAnswer(content))
    /\ NextItem

\* the labels of the answers, in order
ParseAll(contents) == [k \in 1..Len(contents) |-> ParseAnswer(contents[k])]

\* A faulty cut: the whole comment as the only chunk
OneChunk(comment_text, limit) == <<comment_text>>

\* lines 361-364: the chunks main sends, one request each

ChunksOf(comment_text, limit) == chunk_text(comment_text, limit - ChunkReserve)

\* lines 343-394, 426: one request per chunk, the majority label written
ClassifyChunked ==
    /\ InLoop
    /\ ~IsProcessed(data[pos].comment_id, processed_ids)
    /\ ~args_dry_run
    /\ \E prompt_tokens \in TokenCounts(data[pos].comment) :
        /\ prompt_tokens > args_max_tokens
        /\ total_tokens' = total_tokens + prompt_tokens
        /\ LET chunks == ChunksOf(data[pos].comment, args_max_tokens)
           IN  \E contents \in [1..Len(chunks) -> ApiContents] :
                /\ api_calls' = api_calls + Len(chunks)
                /\ csv' = Append(csv, <<CsvCell(data[pos].comment_id),
                                        get_majority_stance(ParseAll(contents))>>)
                /\ Observe("written", prompt_tokens,
                           get_majority_stance(ParseAll(contents)))
    /\ NextItem

\* line 399 raises: the exception leaves main, the with block closes the
\* CSV with the rows written so far
SingleRaises ==
    /\ InLoop
    /\ ~IsProcessed(data[pos].comment_id, processed_ids)
    /\ ~args_dry_run
    /\ \E prompt_tokens \in TokenCounts(data[pos].comment) : prompt_tokens <= args_max_tokens
    /\ EndRun("aborted")

\* line 368 raises at some chunk
ChunkRaises ==
    /\ InLoop
    /\ ~IsProcessed(data[pos].comment_id, processed_ids)
    /\ ~args_dry_run
    /\ \E prompt_tokens \in TokenCounts(data[pos].comment) :
        /\ prompt_tokens > args_max_tokens
        /\ ChunksOf(data[pos].comment, args_max_tokens) # <<>>
    /\ EndRun("aborted")

\* lines 428-431: the loop is over
FinishRun ==
    /\ pc = "loop"
    /\ pos > Len(data)
    /\ EndRun(IF args_dry_run THEN "dry" ELSE "completed")

Next ==
    \/ ExitNoFiles
    \/ StartRun
    \/ SkipItem
    \/ DrySingle
    \/ DryChunked
    \/ ClassifySingle
    \/ ClassifyChunked
    \/ SingleRaises
    \/ ChunkRaises
    \/ FinishRun

(***************************************************************************)
(* Specifications                                                          *)
(***************************************************************************)
ChunkInit == InitChunk /\ ParkedMajority /\ ParkedParse /\ ParkedValidate /\ ParkedMain

SpecChunk == ChunkInit /\ [][NextChunk]_vars

MajorityInit == InitMajority /\ ParkedChunk /\ ParkedParse /\ ParkedValidate /\ ParkedMain

SpecMajority == MajorityInit /\ [][NextMajority]_vars

ParseInit == InitParse /\ ParkedChunk /\ ParkedMajority /\ ParkedValidate /\ ParkedMain

SpecParse == ParseInit /\ [][NextParse]_vars

ValidateInit == InitValidate /\ ParkedChunk /\ ParkedMajority /\ ParkedParse /\ ParkedMain

SpecValidate == ValidateInit /\ [][NextValidate]_vars

Init == InitMain /\ ParkedChunk /\ ParkedMajority /\ ParkedParse /\ ParkedValidate

Spec == Init /\ [][Next]_vars

(***************************************************************************)
(* Properties                                                              *)
(***************************************************************************)
\* the rows of the CSV after the header row
DataRows(file) == SubSeq(file, 2, Len(file))

\* C1: during a run, an item whose identifier equals a value of the
\* "Comment ID" column of the CSV the run found is skipped: its pass of the
\* loop makes no request, adds no tokens to the total and writes no row.
\* The values of the column are strings, and equality is Python's: an
\* identifier that is a JSON number equals none of them.
C1_ResumeSkips ==
    (pc = "loop" /\ last.idx >= 1
        /\ \E k \in 1..Len(DataRows(csv_before)) :
            PyStr(DataRows(csv_before)[k][1]) = data[last.idx].comment_id) =>
        /\ last.outcome = "skipped"
        /\ last.calls = 0
        /\ last.tokens = 0
        /\ last.rows = 0

\* C1 witness: in a run that is not dry, the second item was skipped for a
\* row an earlier run wrote
C1_Witness ==
    /\ pc = "loop"
    /\ ~args_dry_run
    /\ last.idx = 2
    /\ last.outcome = "skipped"
    /\ \E k \in 1..Len(DataRows(csv_before)) :
        PyStr(DataRows(csv_before)[k][1]) = data[2].comment_id

\* how many items of the list have this text as identifier, and how many
\* data rows of the file have it as "Comment ID"
ItemsWith(items, cell) ==
    Cardinality({k \in 1..Len(items) : CsvCell(items[k].comment_id) = cell})

RowsWith(file, cell) ==
    Cardinality({k \in 1..Len(DataRows(file)) : DataRows(file)[k][1] = cell})

\* C2 (as claimed): after runs that were not dry and were each aborted by a
\* request that raised, and one run that was not dry and completed, the CSV
\* holds one data row for every item of the input and no other data row:
\* for every identifier, as many rows as the input has items with it, or
\* one row when the items that share an identifier are taken as one.
C2_OneRowPerItem ==
    (/\ pc = "idle"
     /\ run_log # <<>>
     /\ run_log[Len(run_log)] = "completed"
     /\ \A r \in 1..(Len(run_log) - 1) : run_log[r] = "aborted") =>
        \A cell \in {CsvCell(comment_id) : comment_id \in JsonIds} :
            \/ RowsWith(csv, cell) = ItemsWith(LoadData(input), cell)
            \/ (ItemsWith(LoadData(input), cell) >= 1 /\ RowsWith(csv, cell) = 1)

\* C3 (as claimed): no two data rows of the CSV have the same "Comment ID".
C3_UniqueCommentIds ==
    \A j, k \in 1..Len(DataRows(csv)) :
        DataRows(csv)[j][1] = DataRows(csv)[k][1] => j = k

\* C4: in a dry run no request is made and no data row is appended: the
\* data rows of the CSV, and so the identifiers a later run finds in it,
\* are those the dry run found.
C4_DryRunLeavesRows ==
    (pc = "loop" /\ args_dry_run) =>
        /\ api_calls = 0
        /\ last.calls = 0
        /\ last.rows = 0
        /\ DataRows(csv) = DataRows(csv_before)
        /\ {DataRows(csv)[k][1] : k \in 1..Len(DataRows(csv))}
            = {DataRows(csv_before)[k][1] : k \in 1..Len(DataRows(csv_before))}

\* C4 witness: a dry run over a CSV that holds a row, at the end of its
\* loop, after a chunked item that was not skipped
C4_Witness ==
    /\ pc = "loop"
    /\ args_dry_run
    /\ pos > Len(data)
    /\ Len(DataRows(csv_before)) >= 1
    /\ last.outcome = "dry"
    /\ last.prompt_tokens > args_max_tokens

\* C5 (as claimed): an item that gets its row in a run that is not dry has
\* caused one request when its prompt is within --max-tokens, and otherwise
\* one request per chunk of chunk_text, at least one.
C5_CallsPerItemAtLeastOne ==
    (pc = "loop" /\ last.outcome = "written") =>
        IF last.prompt_tokens <= args_max_tokens
        THEN last.calls = 1
        ELSE /\ last.calls =
                    Len(chunk_text(data[last.idx].comment, args_max_tokens - ChunkReserve))
             /\ last.calls >= 1

\* C5 (amended): one request when the prompt is within --max-tokens, and
\* otherwise one request per chunk of chunk_text, of which there may be
\* none; the row of an item without a chunk has the label "absent".
C5_CallsPerChunk ==
    (pc = "loop" /\ last.outcome = "written") =>
        /\ last.rows = 1
        /\ IF last.prompt_tokens <= args_max_tokens
           THEN last.calls = 1
           ELSE last.calls =
                    Len(chunk_text(data[last.idx].comment, args_max_tokens - ChunkReserve))
        /\ last.calls = 0 => last.result = "absent"

\* C5 witness: an item cut in two chunks got its row after two requests
C5_Witness ==
    /\ pc = "loop"
    /\ last.outcome = "written"
    /\ last.prompt_tokens > args_max_tokens
    /\ last.calls = 2
    /\ last.rows = 1

Min(S) == CHOOSE m \in S : \A n \in S : m <= n

NonEmptyPieces(parts) == SelectSeq(parts, LAMBDA piece : piece # <<>>)

\* the sentences of every chunk, in order
RECURSIVE SentencesOf(_)
SentencesOf(chunks) ==
    IF chunks = <<>> THEN <<>>
    ELSE split(Head(chunks)) \o SentencesOf(Tail(chunks))

Occurrences(list, x) == Cardinality({k \in 1..Len(list) : list[k] = x})

\* the places of an answer where "present" or "absent" stands as a whole
\* word, whatever the case of its letters
WholeWordPlaces(content) ==
    {k \in 1..Len(content) :
        /\ content[k] \in {"present", "absent", "Present"}
        /\ (k > 1 => content[k - 1] = " ")
        /\ (k < Len(content) => content[k + 1] = " ")}

\* C6: the label read from an answer is the first whole-word "present" or
\* "absent" of the lower-cased answer, "absent" when there is none; every
\* chunk label and the label of the item, sent whole or in chunks, is
\* "present" or "absent".
C6_LabelFromEnum ==
    /\ pa_stance # "" =>
        LET places == WholeWordPlaces(pa_content)
        IN  pa_stance = IF places = {} THEN "absent"
                        ELSE IF pa_content[Min(places)] = "absent" THEN "absent"
                        ELSE "present"
    /\ \A k \in 1..Len(pa_chunk_stances) :
        pa_chunk_stances[k] \in {"present", "absent"}
    /\ pa_pc = "done" => pa_result \in {"present", "absent"}
    /\ (pa_pc = "done" /\ pa_chunk_stances = <<>> /\ pa_stance # "") =>
        pa_result = pa_stance

\* C6 witness: a chunked item whose last answer holds "Present" as a whole
\* word before anything else, labelled "present" by the majority
C6_Witness ==
    /\ pa_pc = "done"
    /\ Len(pa_chunk_stances) >= 2
    /\ pa_content = <<" ", "Present", " ">>
    /\ pa_stance = "present"
    /\ pa_result = "present"

\* C7 (as claimed): every chunk chunk_text returns has at most
\* max_tokens * 3 characters.
C7_ChunksWithinBudget ==
    ct_pc = "done" =>
        \A k \in 1..Len(ct_chunks) : Len(ct_chunks[k]) <= ct_max_tokens * 3

\* C8 (as claimed): the chunks joined with ". " are the text, and every
\* chunk is a run of whole sentences of the text.
C8_JoinRestoresText ==
    ct_pc = "done" =>
        /\ join(ct_chunks) = ct_text
        /\ \A k \in 1..Len(ct_chunks) :
            \E i, j \in 1..Len(split(ct_text)) :
                ct_chunks[k] = join(SubSeq(split(ct_text), i, j))

\* C8 (amended): the non-empty sentences of the chunks, in order, are the
\* non-empty sentences of the text; every chunk is a run of consecutive
\* sentences of the text joined with ". "; and the chunks joined with ". "
\* are the text when the text has no empty sentence.
C8_SentencesPreserved ==
    ct_pc = "done" =>
        /\ NonEmptyPieces(SentencesOf(ct_chunks)) = NonEmptyPieces(split(ct_text))
        /\ \A k \in 1..Len(ct_chunks) :
            \E i, j \in 1..Len(split(ct_text)) :
                ct_chunks[k] = join(SubSeq(split(ct_text), i, j))
        /\ NonEmptyPieces(split(ct_text)) = split(ct_text) =>
            join(ct_chunks) = ct_text

\* C8 witness: a text cut into several chunks that join back to it
C8_Witness ==
    /\ ct_pc = "done"
    /\ Len(ct_chunks) >= 2
    /\ Len(ct_text) > ct_max_tokens * 3
    /\ join(ct_chunks) = ct_text

\* C9: for a non-empty list of labels the result is a label of the list
\* that occurs at least as often as every other label.
C9_MostFrequent ==
    (gm_pc = "done" /\ gm_stances # <<>>) =>
        /\ \E k \in 1..Len(gm_stances) : gm_stances[k] = gm_result
        /\ \A x \in Labels :
            Occurrences(gm_stances, gm_result) >= Occurrences(gm_stances, x)

\* C9 witness: the most frequent label is not the first of the list
C9_Witness ==
    /\ gm_pc = "done"
    /\ gm_stances = <<"absent", "present", "unclear", "present">>
    /\ gm_result = "present"

\* C10 (as claimed): for every num_samples, the number of comments
\* presented and recorded is min(num_samples, number of comments with a
\* model result), the presented comments are pairwise distinct
\* (filename, comment_id) pairs, and each has a row in the results CSV.
C10_SampleSize ==
    LET available == Cardinality(va_dir \cap DOMAIN va_results)
        wanted == IF va_arg_num_samples < available
                  THEN va_arg_num_samples ELSE available
    IN  /\ va_pc \in {"prompt", "done"} => Len(va_sampled) = wanted
        /\ va_pc = "done" => Len(va_output) = wanted
        /\ \A i, j \in 1..Len(va_sampled) :
            (va_sampled[i].filename = va_sampled[j].filename
             /\ va_sampled[i].comment_id = va_sampled[j].comment_id) => i = j
        /\ \A i \in 1..Len(va_sampled) :
            <<va_sampled[i].filename, va_sampled[i].comment_id>> \in DOMAIN va_results

\* the label a typed line stands for when case and the whitespace around it
\* are ignored: the line is one word among blanks, and the word is a
\* spelling of "for" or of "against"; "" for any other line
TypedLabel(typed) ==
    IF \E i \in 1..Len(typed) :
           /\ typed[i] # " "
           /\ \A j \in 1..Len(typed) : j # i => typed[j] = " "
    THEN LET word == typed[CHOOSE i \in 1..Len(typed) : typed[i] # " "]
         IN  IF word \in {"for", "For"} THEN "for" ELSE "against"
    ELSE ""

\* C11: while the comments are shown, a typed line that is not "for" or
\* "against" (case and surrounding whitespace ignored) records nothing and
\* leaves a comment to prompt for, and a typed line that is one of them
\* records that label; there is one response per comment shown so far, in
\* order, with the model's stance of that comment and a user stance that
\* is "for" or "against", and at the end one per sampled comment; a row of
\* the output has agrees true exactly when its two stances are equal; and
\* the agreement printed (to two decimals) is 100 * agreeing / responses,
\* 0 without a response.
C11_Agreement ==
    /\ va_pc \in {"prompt", "done"} =>
        /\ Len(va_user_responses) <= Len(va_sampled)
        /\ \A k \in 1..Len(va_user_responses) :
            /\ va_user_responses[k].filename = va_sampled[k].filename
            /\ va_user_responses[k].comment_id = va_sampled[k].comment_id
            /\ va_user_responses[k].model_stance = va_sampled[k].model_stance
            /\ va_user_responses[k].user_stance \in {"for", "against"}
    /\ (va_pc = "prompt" /\ va_typed # NoInput) =>
        IF TypedLabel(va_typed) = ""
        THEN /\ va_user_input # NoInput
             /\ Len(va_user_responses) < Len(va_sampled)
        ELSE /\ va_user_input = NoInput
             /\ va_user_responses # <<>>
             /\ va_user_responses[Len(va_user_responses)].user_stance
                    = TypedLabel(va_typed)
    /\ va_pc = "done" =>
        /\ Len(va_user_responses) = Len(va_sampled)
        /\ Len(va_output) = Len(va_user_responses)
        /\ \A k \in 1..Len(va_output) :
            /\ va_output[k].filename = va_user_responses[k].filename
            /\ va_output[k].comment_id = va_user_responses[k].comment_id
            /\ va_output[k].model_stance = va_user_responses[k].model_stance
            /\ va_output[k].user_stance = va_user_responses[k].user_stance
            /\ va_output[k].agrees
                    <=> (va_output[k].model_stance = va_output[k].user_stance)
        /\ LET total == Len(va_output)
               agreeing == Cardinality({k \in 1..total : va_output[k].agrees})
               off == va_agreement * total - 100 * 100 * agreeing
           IN  IF total = 0 THEN va_agreement = 0
               ELSE 2 * off <= total /\ -2 * off <= total

\* C11 witness: the run ended with an agreeing and a disagreeing row, one
\* of them for a model stance spelled "For", after a last line typed in
\* capitals behind a blank
C11_Witness ==
    /\ va_pc = "done"
    /\ va_typed = <<" ", "AGAINST">>
    /\ \E j, k \in 1..Len(va_output) :
        /\ va_output[j].agrees
        /\ ~va_output[k].agrees
        /\ va_output[k].model_stance = "For"
        /\ va_output[k].user_stance = "for"
    /\ va_agreement \notin {0, 100 * 100}

\* the lines of the file that are the header row
HeaderLines(file) == {k \in 1..Len(file) : file[k] = Header}

\* C12: from no output CSV, after any sequence of dry runs, aborted runs
\* and completed runs, and at every point of a run that has opened the
\* CSV, the header row is the first line of the file and no other line;
\* a run that found lines in the file has added no header row to it.
C12_HeaderOnce ==
    /\ csv_exists => HeaderLines(csv) = {1}
    /\ ~csv_exists => csv = <<>>
    /\ (pc = "loop" /\ csv_before # <<>>) =>
        /\ Len(csv) >= Len(csv_before)
        /\ SubSeq(csv, 1, Len(csv_before)) = csv_before
        /\ HeaderLines(csv) = HeaderLines(csv_before)

\* C12 witness: after a dry run that left the header row alone in the
\* file, a second run has written a data row behind it
C12_Witness ==
    /\ pc = "loop"
    /\ run_log = <<"dry">>
    /\ csv_before = <<Header>>
    /\ Len(csv) >= 2
    /\ last.outcome = "written"

\* the files of a listing whose text was extracted, in the order found
ExtractedFiles(files) == SelectSeq(files, LAMBDA file : file.extract_ok)

\* C13 (as claimed): in directory mode a file whose extraction raises is
\* not among the items to process, every other file found is, in the
\* order found; the run goes on (it exits early only when no file was
\* found); and after a first run that was not dry and completed, the CSV
\* has a row for the identifier of every file whose text was extracted
\* and no row for the identifier of a file whose extraction raised.
C13_FailedFileDropped ==
    input.mode = "dir" =>
        /\ pc = "loop" =>
            data = [k \in 1..Len(ExtractedFiles(input.entries)) |->
                       [comment_id |-> PyStr(ExtractedFiles(input.entries)[k].stem),
                        comment |-> ExtractedFiles(input.entries)[k].text]]
        /\ (\E r \in 1..Len(run_log) : run_log[r] = "exit") => input.entries = <<>>
        /\ (pc = "idle" /\ run_log = <<"completed">>) =>
            \A k \in 1..Len(input.entries) :
                IF input.entries[k].extract_ok
                THEN RowsWith(csv, input.entries[k].stem) >= 1
                ELSE RowsWith(csv, input.entries[k].stem) = 0

\* the place of the first occurrence of x in the list
FirstPlace(list, x) == Min({k \in 1..Len(list) : list[k] = x})

\* C14: for a non-empty list the result is, among the labels that occur
\* most often, the one whose first occurrence comes first in the list; for
\* the empty list it is "absent".
C14_EarliestOfTied ==
    gm_pc = "done" =>
        IF gm_stances = <<>> THEN gm_result = "absent"
        ELSE /\ Occurrences(gm_stances, gm_result) >= 1
             /\ \A x \in Labels :
                    Occurrences(gm_stances, x) <= Occurrences(gm_stances, gm_result)
             /\ \A x \in Labels :
                    (Occurrences(gm_stances, x) = Occurrences(gm_stances, gm_result)) =>
                        FirstPlace(gm_stances, gm_result) <= FirstPlace(gm_stances, x)

\* C14 witness: two labels occur twice each; the result is the one the list
\* starts with, although the other is the first to occur twice
C14_Witness ==
    /\ gm_pc = "done"
    /\ gm_stances = <<"absent", "present", "present", "absent">>
    /\ gm_result = "absent"

=============================================================================
